---- MODULE Spec2Model ----
(***************************************************************************)
(* The contest rating processor of ratings/processor.py: one invocation    *)
(* reads a rank file into usn_rank_dict, filters it against the player     *)
(* store, computes N, Cf and Rb_Vb_list once, updates or decays every      *)
(* stored row in memory and writes all rows back in one write_back.        *)
(* ratings/elo.py is not part of the sources at hand: EloCf and EloProcess *)
(* are written from the design document, as integer (fixed-point)          *)
(* functions of exactly the arguments the processor passes.                *)
(***************************************************************************)
EXTENDS Integers, Sequences, FiniteSets

VARIABLES
    database,       \* the TinyDB store: usn -> player document
    doc_order,      \* the order in which the store returns its documents
    pc,             \* where the processor script is: idle, read, details, all, loop, write
    outcome,        \* how the last invocation ended: none, running, usage, nofile, crash, done
    exit_status,    \* exit status of the last invocation (-1: none ended yet)
    usns,           \* read_contest_ranks: the line just read, split
    lines_read,     \* read_contest_ranks: number of lines consumed from rank_file
    current_rank,   \* read_contest_ranks: current_rank
    usn_rank_dict,  \* self.usn_rank_dict: usn -> rank, NoRank when the key is absent
    N,              \* self.N
    Cf,             \* self.Cf
    Rb_Vb_list,     \* self.Rb_Vb_list
    cf_calls,       \* number of calls of elo.Cf made by this invocation
    rows,           \* process_competition: rows, the documents being mutated in memory
    idx,            \* process_competition: position of the for loop in rows
    streak,         \* per player: completed contest runs missed in a row
    runs_left       \* completed contest runs still allowed

vars == <<database, doc_order, pc, outcome, exit_status, usns, lines_read,
          current_rank, usn_rank_dict, N, Cf, Rb_Vb_list, cf_calls, rows, idx,
          streak, runs_left>>

(***************************************************************************)
(* Bounds of the exploration.                                              *)
(***************************************************************************)
MaxLines == 3
MaxLineLen == 2
MaxSeasonRuns == 11

(***************************************************************************)
(* Identifiers: A and B have a stored document, X has none.                *)
(***************************************************************************)
Stored == {"A", "B"}
Ids == Stored \cup {"X"}
NoRank == 0

Range(s) == {s[i] : i \in 1..Len(s)}
Max(a, b) == IF a >= b THEN a ELSE b
Min(a, b) == IF a <= b THEN a ELSE b

RECURSIVE SeqsUpTo(_, _)
SeqsUpTo(S, n) ==
    IF n = 0 THEN {<<>>}
    ELSE LET shorter == SeqsUpTo(S, n - 1)
         IN shorter \cup {Append(s, x) : s \in {t \in shorter : Len(t) = n - 1}, x \in S}

\* every line a rank file may hold, already split on whitespace
Lines == SeqsUpTo(Ids, MaxLineLen)
\* the lines of a season's rank files: one tier each
SeasonLines == {<<"A">>, <<"B">>, <<"A", "B">>}

(***************************************************************************)
(* ratings/elo.py, from the design document.                               *)
(***************************************************************************)
DEFAULT_RATING == 1500
DEFAULT_VOLATILITY == 125
MIN_VOLATILITY == 25
MAX_RATING == 3000
PERF_STEP == 4

RECURSIVE SumSeq(_)
SumSeq(s) == IF s = <<>> THEN 0 ELSE s[1] + SumSeq(Tail(s))

Clamp(x) == Max(0, Min(MAX_RATING, x))

\* elo.Cf(rating_list, vol_list, n) for n > 0: symmetric in the field's pairs
EloCf(rating_list, vol_list, n) ==
    LET avg == SumSeq(rating_list) \div n
        dev == SumSeq([i \in 1..Len(rating_list) |->
                          IF rating_list[i] >= avg THEN rating_list[i] - avg
                          ELSE avg - rating_list[i]]) \div n
    IN (SumSeq(vol_list) \div n) + dev

\* what a call elo.Cf(rating_list, vol_list, n) can do: return a value or raise
CfOutcomes(rating_list, vol_list, n) ==
    IF n = 0
    THEN {[raised |-> TRUE, value |-> 0], [raised |-> FALSE, value |-> 0]}
    ELSE {[raised |-> FALSE, value |-> EloCf(rating_list, vol_list, n)]}

\* elo.process(old_rating, old_volatility, times_played, actual_rank, Rb_Vb_list, N, Cf)
EloProcess(old_rating, old_volatility, times_played, actual_rank, field, n, cf) ==
    LET score == IF n > 1 THEN (100 * (n - actual_rank)) \div (n - 1) ELSE 50
        avg == IF Len(field) > 0
               THEN SumSeq([i \in 1..Len(field) |-> field[i][1]]) \div Len(field)
               ELSE old_rating
        perf == Clamp(avg + PERF_STEP * (score - 50))
        delta == ((perf - old_rating) * cf) \div (DEFAULT_VOLATILITY * (times_played + 2))
        target == Max(MIN_VOLATILITY, DEFAULT_VOLATILITY \div (times_played + 1))
     IN <<Clamp(old_rating + delta),
          Max(MIN_VOLATILITY, old_volatility + ((target - old_volatility) \div 2))>>

(***************************************************************************)
(* database/db_tools.py                                                    *)
(***************************************************************************)
DefaultPlayer ==
    [rating |-> DEFAULT_RATING, volatility |-> DEFAULT_VOLATILITY,
     best |-> DEFAULT_RATING, timesPlayed |-> 0, lastFive |-> 5]

\* reset_database: every stored player gets the default attributes
ResetDatabase == [u \in Stored |-> DefaultPlayer]

(***************************************************************************)
(* ratings/processor.py                                                    *)
(***************************************************************************)
EmptyDict == [u \in Ids |-> NoRank]
Keys(d) == {u \in Ids : d[u] # NoRank}

\* a slip: the rank moves by one per line, 1, 1, 1, 2
NextRankByOne(rank, line) == IF line = <<>> THEN rank ELSE rank + 1

\* read_contest_ranks, line 33: current_rank += len(usns)
NextRank(rank, line) == rank + Len(line)

\* read_contest_ranks, lines 31-32: every usn of the line gets current_rank
AssignRanks(d, line, rank) ==
    [u \in Ids |-> IF u \in Range(line) THEN rank ELSE d[u]]

\* set_contest_details, lines 41-47: usns without a stored document are popped
RemoveInvalid(d) == [u \in Ids |-> IF u \in DOMAIN database THEN d[u] ELSE NoRank]

\* set_contest_details, line 50: the matching documents, in the store's order
Participants(d) == SelectSeq(doc_order, LAMBDA u : u \in Keys(d))

\* _decay_player, line 73: rating * 0.99 in fixed point
DecayRating(rating) == (rating * 99) \div 100

\* a slip: the rating is cut on every missed contest
DecayPlayerAlways(player_dict) ==
    LET times_played == player_dict.timesPlayed
        stepped == IF times_played > 0 THEN player_dict.lastFive - 1
                   ELSE player_dict.lastFive
        rating == IF times_played > 0 THEN DecayRating(player_dict.rating)
                  ELSE player_dict.rating
        last_five == IF times_played > 0 /\ stepped = 0 THEN 5 ELSE stepped
    IN [player_dict EXCEPT !.rating = rating, !.lastFive = Max(1, last_five)]

\* a slip: last_five is not reset after the cut
DecayPlayerNoReset(player_dict) ==
    LET times_played == player_dict.timesPlayed
        stepped == IF times_played > 0 THEN player_dict.lastFive - 1
                   ELSE player_dict.lastFive
        expired == times_played > 0 /\ stepped = 0
        rating == IF expired THEN DecayRating(player_dict.rating) ELSE player_dict.rating
    IN [player_dict EXCEPT !.rating = rating, !.lastFive = Max(1, stepped)]

\* a slip: the countdown also runs for players who never took part
DecayPlayerUnguarded(player_dict) ==
    LET stepped == player_dict.lastFive - 1
        expired == stepped = 0
        rating == IF expired THEN DecayRating(player_dict.rating) ELSE player_dict.rating
        last_five == IF expired THEN 5 ELSE stepped
    IN [player_dict EXCEPT !.rating = rating, !.lastFive = Max(1, last_five)]

\* _decay_player
DecayPlayer(player_dict) ==
    LET times_played == player_dict.timesPlayed
        stepped == IF times_played > 0 THEN player_dict.lastFive - 1
                   ELSE player_dict.lastFive
        expired == times_played > 0 /\ stepped = 0
        rating == IF expired THEN DecayRating(player_dict.rating) ELSE player_dict.rating
        last_five == IF expired THEN 5 ELSE stepped
    IN [player_dict EXCEPT !.rating = rating, !.lastFive = Max(1, last_five)]

\* a slip: best is overwritten by the new rating
UpdatePlayerBestOverwritten(player_dict, actual_rank, field) ==
    LET new == EloProcess(player_dict.rating, player_dict.volatility,
                          player_dict.timesPlayed, actual_rank, field, N, Cf)
    IN [rating |-> new[1], volatility |-> new[2],
        timesPlayed |-> player_dict.timesPlayed + 1,
        best |-> new[1],
        lastFive |-> 5]

\* _update_player
UpdatePlayer(player_dict, actual_rank, field) ==
    LET new == EloProcess(player_dict.rating, player_dict.volatility,
                          player_dict.timesPlayed, actual_rank, field, N, Cf)
    IN [rating |-> new[1], volatility |-> new[2],
        timesPlayed |-> player_dict.timesPlayed + 1,
        best |-> Max(player_dict.best, new[1]),
        lastFive |-> 5]

\* a slip: the field is rebuilt from the rows as mutated so far
FieldFromRows ==
    LET p == Participants(usn_rank_dict)
    IN [i \in 1..Len(p) |-> <<rows[p[i]].rating, rows[p[i]].volatility>>]

\* the field handed to elo.process by _update_player: self.Rb_Vb_list
FieldForUpdate == Rb_Vb_list

\* the state a process leaves behind when it ends: its memory is gone
Scratch ==
    /\ usns' = <<>>
    /\ lines_read' = 0
    /\ current_rank' = 0
    /\ usn_rank_dict' = EmptyDict
    /\ N' = 0
    /\ Cf' = 0
    /\ Rb_Vb_list' = <<>>
    /\ rows' = <<>>
    /\ idx' = 0

\* __main__ and read_argv: the script is started with argc arguments
Invoke ==
    /\ pc = "idle"
    /\ runs_left > 0
    /\ \E argc \in 1..3, readable \in BOOLEAN :
         IF argc # 2                        \* assert len(sys.argv) == 2 fails: quit()
         THEN /\ outcome' = "usage"
              /\ exit_status' = 0
              /\ UNCHANGED <<pc, current_rank, cf_calls>>
         ELSE IF ~readable                  \* open(rank_file) raises IOError: quit()
         THEN /\ outcome' = "nofile"
              /\ exit_status' = 0
              /\ UNCHANGED <<pc, current_rank, cf_calls>>
         ELSE /\ outcome' = "running"       \* RatingProcessor.__init__
              /\ exit_status' = -1
              /\ pc' = "read"
              /\ current_rank' = 1
              /\ cf_calls' = 0
    /\ UNCHANGED <<database, doc_order, usns, lines_read, usn_rank_dict, N, Cf,
                   Rb_Vb_list, rows, idx, streak, runs_left>>

\* read_contest_ranks: one turn of the loop over the file, or its end
ReadLine(lines, min_lines, max_lines) ==
    /\ pc = "read"
    /\ \/ /\ lines_read < max_lines
          /\ \E line \in lines :
               /\ usns' = line
               /\ usn_rank_dict' = AssignRanks(usn_rank_dict, line, current_rank)
               /\ current_rank' = NextRank(current_rank, line)
          /\ lines_read' = lines_read + 1
          /\ UNCHANGED pc
       \/ /\ lines_read >= min_lines
          /\ pc' = "details"
          /\ UNCHANGED <<usns, lines_read, current_rank, usn_rank_dict>>
    /\ UNCHANGED <<database, doc_order, outcome, exit_status, N, Cf, Rb_Vb_list,
                   cf_calls, rows, idx, streak, runs_left>>

\* set_contest_details
SetContestDetails ==
    /\ pc = "details"
    /\ LET kept == RemoveInvalid(usn_rank_dict)
           participants == Participants(kept)
           rating_list == [i \in 1..Len(participants) |-> database[participants[i]].rating]
           vol_list == [i \in 1..Len(participants) |-> database[participants[i]].volatility]
           n == Cardinality(Keys(kept))
       IN \E result \in CfOutcomes(rating_list, vol_list, n) :
            /\ cf_calls' = cf_calls + 1
            /\ IF result.raised             \* uncaught exception: traceback, status 1
               THEN /\ pc' = "idle"
                    /\ outcome' = "crash"
                    /\ exit_status' = 1
                    /\ Scratch
               ELSE /\ pc' = "all"
                    /\ usn_rank_dict' = kept
                    /\ N' = n
                    /\ Cf' = result.value
                    /\ Rb_Vb_list' = [i \in 1..Len(participants) |->
                                         <<rating_list[i], vol_list[i]>>]
                    /\ UNCHANGED <<outcome, exit_status, usns, lines_read,
                                   current_rank, rows, idx>>
    /\ UNCHANGED <<database, doc_order, streak, runs_left>>

\* process_competition, line 107: rows = self.database.all()
ReadAll ==
    /\ pc = "all"
    /\ rows' = database
    /\ idx' = 1
    /\ pc' = "loop"
    /\ UNCHANGED <<database, doc_order, outcome, exit_status, usns, lines_read,
                   current_rank, usn_rank_dict, N, Cf, Rb_Vb_list, cf_calls,
                   streak, runs_left>>

\* a slip: every row is stored as soon as it is computed
ProcessRowWriteThrough ==
    /\ pc = "loop"
    /\ IF idx <= Len(doc_order)
       THEN LET usn == doc_order[idx]
            IN /\ rows' = [rows EXCEPT ![usn] =
                             IF usn \in Keys(usn_rank_dict)
                             THEN UpdatePlayer(@, usn_rank_dict[usn], FieldForUpdate)
                             ELSE DecayPlayer(@)]
               /\ database' = rows'
               /\ idx' = idx + 1
               /\ UNCHANGED pc
       ELSE /\ pc' = "write"
            /\ UNCHANGED <<database, rows, idx>>
    /\ UNCHANGED <<doc_order, outcome, exit_status, usns, lines_read,
                   current_rank, usn_rank_dict, N, Cf, Rb_Vb_list, cf_calls,
                   streak, runs_left>>

\* process_competition, lines 108-114: one turn of the loop over rows
ProcessRow ==
    /\ pc = "loop"
    /\ IF idx <= Len(doc_order)
       THEN LET usn == doc_order[idx]
            IN /\ rows' = [rows EXCEPT ![usn] =
                             IF usn \in Keys(usn_rank_dict)
                             THEN UpdatePlayer(@, usn_rank_dict[usn], FieldForUpdate)
                             ELSE DecayPlayer(@)]
               /\ idx' = idx + 1
               /\ UNCHANGED pc
       ELSE /\ pc' = "write"
            /\ UNCHANGED <<rows, idx>>
    /\ UNCHANGED <<database, doc_order, outcome, exit_status, usns, lines_read,
                   current_rank, usn_rank_dict, N, Cf, Rb_Vb_list, cf_calls,
                   streak, runs_left>>

\* process_competition, line 115: self.database.write_back(rows); the script ends
WriteBack ==
    /\ pc = "write"
    /\ database' = rows
    /\ streak' = [u \in Stored |-> IF u \in Keys(usn_rank_dict) THEN 0 ELSE streak[u] + 1]
    /\ runs_left' = runs_left - 1
    /\ pc' = "idle"
    /\ outcome' = "done"
    /\ exit_status' = 0
    /\ Scratch
    /\ UNCHANGED <<doc_order, cf_calls>>

\* the process dies before write_back (killed, or an exception in the loop)
Crash ==
    /\ pc \in {"read", "details", "all", "loop", "write"}
    /\ pc' = "idle"
    /\ outcome' = "crash"
    /\ exit_status' = 1
    /\ Scratch
    /\ UNCHANGED <<database, doc_order, cf_calls, streak, runs_left>>

\* the store after the contests A / A / A B / B / B / B / B of a season
VeteranDatabase ==
    [A |-> [rating |-> 1543, volatility |-> 67, best |-> 1543,
            timesPlayed |-> 3, lastFive |-> 1],
     B |-> [rating |-> 1587, volatility |-> 37, best |-> 1587,
            timesPlayed |-> 5, lastFive |-> 5]]
VeteranStreak == [A |-> 4, B |-> 0]

InitWith(db, missed, orders, runs) ==
    /\ database = db
    /\ streak = missed
    /\ doc_order \in orders
    /\ pc = "idle"
    /\ outcome = "none"
    /\ exit_status = -1
    /\ usns = <<>>
    /\ lines_read = 0
    /\ current_rank = 0
    /\ usn_rank_dict = EmptyDict
    /\ N = 0
    /\ Cf = 0
    /\ Rb_Vb_list = <<>>
    /\ cf_calls = 0
    /\ rows = <<>>
    /\ idx = 0
    /\ runs_left = runs

DocOrders == {<<"A", "B">>, <<"B", "A">>}

\* one contest run (retried after a crash) over any rank file of at most MaxLines
\* lines, against a fresh or a veteran store
Init ==
    \/ InitWith(ResetDatabase, [u \in Stored |-> 0], DocOrders, 1)
    \/ InitWith(VeteranDatabase, VeteranStreak, DocOrders, 1)

Next ==
    \/ Invoke
    \/ ReadLine(Lines, 0, MaxLines)
    \/ SetContestDetails
    \/ ReadAll
    \/ ProcessRow
    \/ WriteBack
    \/ Crash

Spec == Init /\ [][Next]_vars

\* a season: up to MaxSeasonRuns contests of one tier each
InitSeason ==
    InitWith(ResetDatabase, [u \in Stored |-> 0], {<<"A", "B">>}, MaxSeasonRuns)

NextSeason ==
    \/ Invoke
    \/ ReadLine(SeasonLines, 1, 1)
    \/ SetContestDetails
    \/ ReadAll
    \/ ProcessRow
    \/ WriteBack

SpecSeason == InitSeason /\ [][NextSeason]_vars

(***************************************************************************)
(* Properties                                                              *)
(***************************************************************************)
IsDistinct(line) == Cardinality(Range(line)) = Len(line)
LineWasRead == pc = "read" /\ pc' = "read" /\ lines_read' = lines_read + 1
RunCompletes == pc = "write" /\ pc' = "idle" /\ outcome' = "done"
Absent(u) == u \notin Keys(usn_rank_dict)

\* C1: reading starts at rank 1; every identifier of a line read at rank r gets
\* rank r while every other identifier keeps what it had; a line of k distinct
\* identifiers moves the rank to r + k; an empty line assigns nothing and
\* leaves the rank where it was.
C1_RankTiers ==
    [][/\ (pc = "idle" /\ pc' = "read") => current_rank' = 1
       /\ LineWasRead =>
            /\ \A u \in Range(usns') : usn_rank_dict'[u] = current_rank
            /\ \A u \in Ids \ Range(usns') : usn_rank_dict'[u] = usn_rank_dict[u]
            /\ IsDistinct(usns') =>
                 current_rank' = current_rank + Cardinality(Range(usns'))
            /\ usns' = <<>> =>
                 (usn_rank_dict' = usn_rank_dict /\ current_rank' = current_rank)]_vars

\* a tie of two at rank 1, an empty line, then the next tier at rank 3
C1_Witness ==
    /\ pc = "details"
    /\ lines_read = 3
    /\ usn_rank_dict["A"] = 1 /\ usn_rank_dict["X"] = 1 /\ usn_rank_dict["B"] = 3
    /\ current_rank = 4

\* C2: in a completed run a stored player absent from the rank map never gains
\* rating, loses rating only when lastFive - 1 is 0 (and timesPlayed > 0), and
\* lastFive is at least 1 in every state of the store and of the rows in memory.
C2_DecayMonotone ==
    [][/\ RunCompletes =>
            \A u \in Stored : Absent(u) =>
               /\ database'[u].rating <= database[u].rating
               /\ database'[u].rating < database[u].rating =>
                    (database[u].timesPlayed > 0 /\ database[u].lastFive - 1 = 0)
       /\ \A u \in Stored : database'[u].lastFive >= 1
       /\ pc' \in {"loop", "write"} => \A u \in Stored : rows'[u].lastFive >= 1]_vars

\* an absent player whose countdown was at 1 has just lost rating
C2_Witness ==
    /\ outcome = "done"
    /\ streak["A"] = 5
    /\ database["A"].timesPlayed > 0
    /\ database["A"].rating < database["A"].best
    /\ database["A"].lastFive = 5

C4_NeverPlayedUntouched ==
    \A u \in Stored :
       database[u].timesPlayed = 0 =>
          /\ database[u] = DefaultPlayer
          /\ pc \in {"loop", "write"} /\ Absent(u) => rows[u] = database[u]

\* B has missed every run of a season in which A played each time
C4_Witness ==
    /\ database["B"].timesPlayed = 0
    /\ streak["B"] = MaxSeasonRuns
    /\ database["A"].timesPlayed = MaxSeasonRuns

\* C5 (as claimed): a run whose filtered rank map is empty is a no-op: it never
\* gets to change a stored record.
C5_EmptyFieldNoOp ==
    [][(pc = "write" /\ Keys(usn_rank_dict) = {}) => database' = database]_vars

\* the field, its calibration and a rating computed from the store as it is
SnapshotField ==
    LET p == Participants(usn_rank_dict)
    IN [i \in 1..Len(p) |-> <<database[p[i]].rating, database[p[i]].volatility>>]
SnapshotCf ==
    LET f == SnapshotField
    IN IF Len(f) = 0 THEN 0
       ELSE EloCf([i \in 1..Len(f) |-> f[i][1]], [i \in 1..Len(f) |-> f[i][2]], Len(f))
Rated(old, rank) ==
    LET new == EloProcess(old.rating, old.volatility, old.timesPlayed, rank,
                          SnapshotField, Cardinality(Keys(usn_rank_dict)), SnapshotCf)
    IN [old EXCEPT !.rating = new[1], !.volatility = new[2]]

\* C6: once the contest details are set, the rank map holds stored players
\* only, N counts them, Rb_Vb_list holds one (rating, volatility) pair per
\* matched player taken from the store as it was before the run, Cf is the
\* calibration of exactly those pairs, and every row already processed is the
\* update (or decay) of its pre-run record against that same field, N and Cf.
C6_ContestSnapshot ==
    pc \in {"all", "loop", "write"} =>
       /\ Keys(usn_rank_dict) \subseteq Stored
       /\ N = Cardinality(Keys(usn_rank_dict))
       /\ Len(Rb_Vb_list) = N
       /\ Rb_Vb_list = SnapshotField
       /\ Cf = SnapshotCf
       /\ pc \in {"loop", "write"} =>
            \A i \in 1..Len(doc_order) :
               LET u == doc_order[i]
               IN IF i >= idx THEN rows[u] = database[u]
                  ELSE IF Absent(u) THEN rows[u].volatility = database[u].volatility
                  ELSE /\ rows[u].rating = Rated(database[u], usn_rank_dict[u]).rating
                       /\ rows[u].volatility =
                            Rated(database[u], usn_rank_dict[u]).volatility

\* A first, the unknown X second (dropped), B third: both rows updated
C6_Witness ==
    /\ pc = "write"
    /\ N = 2
    /\ usn_rank_dict["A"] = 1 /\ usn_rank_dict["B"] = 3
    /\ rows["A"].rating # database["A"].rating
    /\ rows["B"].rating # database["B"].rating

\* C7: a completed run gives every player of the rank map timesPlayed + 1,
\* best = max(old best, new rating) and lastFive = 5, and leaves timesPlayed,
\* best and volatility of everyone else alone; best never goes down and is at
\* least the rating in every state of the store.
C7_Bookkeeping ==
    [][/\ RunCompletes =>
            \A u \in Stored :
               IF Absent(u)
               THEN /\ database'[u].timesPlayed = database[u].timesPlayed
                    /\ database'[u].best = database[u].best
                    /\ database'[u].volatility = database[u].volatility
               ELSE /\ database'[u].timesPlayed = database[u].timesPlayed + 1
                    /\ database'[u].best = Max(database[u].best, database'[u].rating)
                    /\ database'[u].lastFive = 5
       /\ \A u \in Stored :
            /\ database'[u].best >= database[u].best
            /\ database'[u].best >= database'[u].rating]_vars

\* after a decay A plays again and stays below the best reached earlier
C7_Witness ==
    /\ outcome = "done"
    /\ streak["A"] = 0
    /\ database["A"].timesPlayed >= 2
    /\ database["A"].best > database["A"].rating
    /\ database["A"].best > DEFAULT_RATING

\* the record a run has to leave for u, from the store before the run
ExpectedRecord(u) ==
    IF Absent(u) THEN DecayPlayer(database[u])
    ELSE [Rated(database[u], usn_rank_dict[u]) EXCEPT
            !.timesPlayed = @ + 1,
            !.best = Max(@, Rated(database[u], usn_rank_dict[u]).rating),
            !.lastFive = 5]

\* C8: the store changes only in the write_back that ends a run, and what is
\* written depends on nothing but the store before the run and the rank map:
\* the rated players' new records against the pre-run field, the others'
\* decayed records.
C8_SingleWriteBack ==
    [][/\ database' # database => RunCompletes
       /\ RunCompletes => database' = [u \in Stored |-> ExpectedRecord(u)]
       /\ (pc # "idle" /\ pc' = "idle" /\ ~RunCompletes) => database' = database]_vars

\* both rows are changed in memory and the store still holds the pre-run records
C8_Witness ==
    /\ pc = "write"
    /\ \A u \in Stored : rows[u] # database[u]
    /\ database = VeteranDatabase

\* C9 (as claimed): an invocation with a wrong argument count or an unreadable
\* path ends with a non-zero exit status and leaves the store alone.
C9_FailsLoudly ==
    [][(pc = "idle" /\ pc' = "idle" /\ outcome' \in {"usage", "nofile"}) =>
          (exit_status' # 0 /\ database' = database)]_vars

\* C10 (as claimed): every player about to be rated has a rank between 1 and N.
C10_RankWithinField ==
    pc \in {"all", "loop"} =>
       \A u \in Keys(usn_rank_dict) : 1 <= usn_rank_dict[u] /\ usn_rank_dict[u] <= N

====
